---- MODULE Spec2Model ----
(***************************************************************************)
(* The review service: users, items, reviews and comments behind a token   *)
(* gate (authenticateToken) and per-resource ownership checks.             *)
(*                                                                         *)
(* The relational store is the only shared state.  A request is a process  *)
(* whose steps are the store operations it awaits: the code between two    *)
(* awaits touches nothing shared, so each action is one store operation    *)
(* followed by the handler's code up to its next await or its response.    *)
(***************************************************************************)
EXTENDS Integers, Sequences, FiniteSets, TLC

VARIABLES users, items, reviews, comments,
          nextUserId, nextReviewId, nextCommentId,
          now, issued, req

vars == <<users, items, reviews, comments,
          nextUserId, nextReviewId, nextCommentId, now, issued, req>>

store == <<users, items, reviews, comments>>

(***************************************************************************)
(* Bounds of the model.                                                    *)
(***************************************************************************)
\* seconds the clock advances in one Tick
TickStep == 1800
\* the clock stops here
MaxTime == 3600
\* tokens the clients keep
MaxTokens == 3
\* autoincrement ids handed out at most
MaxUserId == 3
MaxReviewId == 4
MaxCommentId == 4

\* one request at a time / two requests whose steps interleave
Slots == {1, 2}
SeqSlots == {1}

(***************************************************************************)
(* Program constants.                                                      *)
(***************************************************************************)
\* jwt.sign(..., { expiresIn: '1h' }), in seconds
ExpiresIn == 3600
\* registerSchema / loginSchema / content schemas
UsernameMin == 3
PasswordMin == 6
ContentMin == 1
RatingMin == 1
RatingMax == 5
\* querySchema of GET /items
PageMin == 1
PageDefault == 1
LimitMin == 1
LimitMax == 100
LimitDefault == 10
\* averageRating.toFixed(2)
Decimals == 2

JWT_SECRET == "server-secret"
OtherKey == "attacker-key"

(***************************************************************************)
(* Text that the code parses is a sequence of characters.                  *)
(***************************************************************************)
Email1 == <<"t", "1", "@", "e", "x", ".", "c", "o">>
Email2 == <<"t", "2", "@", "e", "x", ".", "c", "o">>
Email3 == <<"n", "3", "@", "e", "x", ".", "c", "o">>
BadEmail == <<"n", "3", ".", "c", "o">>

Digits == {"0", "1", "2", "3", "4", "5", "6", "7", "8", "9"}

DigitVal(c) ==
    CASE c = "0" -> 0 [] c = "1" -> 1 [] c = "2" -> 2 [] c = "3" -> 3
      [] c = "4" -> 4 [] c = "5" -> 5 [] c = "6" -> 6 [] c = "7" -> 7
      [] c = "8" -> 8 [] c = "9" -> 9

\* number of leading decimal digits of a text
RECURSIVE LeadingDigits(_)
LeadingDigits(t) ==
    IF t = << >> \/ Head(t) \notin Digits THEN 0
    ELSE 1 + LeadingDigits(Tail(t))

RECURSIVE DecimalValue(_, _)
DecimalValue(t, n) ==
    IF n = 0 THEN 0
    ELSE 10 * DecimalValue(t, n - 1) + DigitVal(t[n])

\* parseInt(text, 10): the value of the leading digits, NaN when there are none
ParseInt(t) ==
    IF LeadingDigits(t) = 0 THEN [nan |-> TRUE, val |-> 0]
    ELSE [nan |-> FALSE, val |-> DecimalValue(t, LeadingDigits(t))]

\* positions of a character in a text
Positions(t, c) == {i \in 1..Len(t) : t[i] = c}

\* z.string().email(): local@domain with a dot inside the domain
IsEmail(t) ==
    /\ Cardinality(Positions(t, "@")) = 1
    /\ LET at == CHOOSE i \in Positions(t, "@") : TRUE
       IN /\ at > 1
          /\ \E d \in Positions(t, ".") : d > at + 1 /\ d < Len(t) - 1

(***************************************************************************)
(* bcrypt: a salted one-way hash; compare re-hashes with the hash's salt.  *)
(***************************************************************************)
Salts == {"saltA"}

BcryptHash(password, salt) == "$2b$10$" \o salt \o "$" \o password

\* a comparison that accepts every password
BcryptCompareAny(password, hash) == TRUE

\* bcrypt.compare(password, hash)
BcryptCompare(password, hash) == \E salt \in Salts : hash = BcryptHash(password, salt)

(***************************************************************************)
(* jsonwebtoken: a token is a payload and a signature over it.             *)
(***************************************************************************)
Signature(key, id, iat, exp) == [key |-> key, id |-> id, iat |-> iat, exp |-> exp]

\* jwt.sign({ id }, secret, { expiresIn: '1h' }) at time t
JwtSign(id, key, t) ==
    [kind |-> "jwt", id |-> id, iat |-> t, exp |-> t + ExpiresIn,
     sig |-> Signature(key, id, t, t + ExpiresIn)]

\* a verification that does not look at the expiry
JwtVerifiesUnchecked(token, key, t) ==
    /\ token.kind = "jwt"
    /\ token.sig = Signature(key, token.id, token.iat, token.exp)

\* jwt.verify(token, secret) at time t returns the payload or throws
JwtVerifies(token, key, t) ==
    /\ token.kind = "jwt"
    /\ token.sig = Signature(key, token.id, token.iat, token.exp)
    /\ t < token.exp

Garbage == [kind |-> "garbage"]
EmptyPart == [kind |-> "empty"]
Undefined == [kind |-> "undefined"]
Word(w) == [kind |-> "word", text |-> w]

\* a token whose payload names another user, under the original signature
Tampered(token, id) == [token EXCEPT !.id = id]

\* a token whose payload claims a later expiry, under the original signature
Extended(token) == [token EXCEPT !.exp = token.exp + ExpiresIn]

\* a token signed with a key that is not the server's
Forged(id, t) == JwtSign(id, OtherKey, t)

(***************************************************************************)
(* The Authorization header is the list of its space-separated parts.      *)
(***************************************************************************)
NoHeader == << >>

\* authHeader && authHeader.split(' ')[1]
HeaderToken(authHeader) ==
    IF authHeader = NoHeader THEN Undefined
    ELSE IF Len(authHeader) >= 2 THEN authHeader[2] ELSE Undefined

\* !token
Falsy(token) == token.kind \in {"undefined", "empty"}

(***************************************************************************)
(* Store records and queries.                                              *)
(***************************************************************************)
NoRec == [id |-> 0]
NoRes == [status |-> 0]
NoBody == [none |-> TRUE]
NoParam == << >>

\* prisma.<model>.findUnique({ where: { id } })
FindById(table, id) ==
    IF \E x \in table : x.id = id
    THEN CHOOSE x \in table : x.id = id
    ELSE NoRec

\* prisma.user.findUnique({ where: { email } })
FindUserByEmail(email) ==
    IF \E u \in users : u.email = email
    THEN CHOOSE u \in users : u.email = email
    ELSE NoRec

\* the set of users / items / reviews / comments a deletion takes with it
ReviewsOfUser(uid) == {r \in reviews : r.userId = uid}
CommentsOfReviews(rs) == {c \in comments : \E r \in rs : c.reviewId = r.id}

Json(status, body) == [status |-> status, body |-> body]
ErrorJson(status, message) == [status |-> status, body |-> [error |-> message]]
ZodIssues == "zod issues"

Idle ==
    [route |-> "none", pc |-> "idle", headers |-> NoHeader, params |-> NoParam,
     query |-> NoBody, body |-> NoBody, user |-> NoRec, existing |-> NoRec, hashed |-> "",
     res |-> NoRes]

Respond(r, res) == [r EXCEPT !.pc = "done", !.res = res]

(***************************************************************************)
(* The state after the seed: two users, two items, two reviews of item 1,  *)
(* one comment on each, and both users logged in at time 0.                *)
(***************************************************************************)
SeedPassword == "password123"

SeedUsers ==
    {[id |-> 1, username |-> "testuser1", email |-> Email1,
      password |-> BcryptHash(SeedPassword, "saltA"), createdAt |-> 0],
     [id |-> 2, username |-> "testuser2", email |-> Email2,
      password |-> BcryptHash(SeedPassword, "saltA"), createdAt |-> 0]}

ItemName1 == <<"I", "t", "e", "m", " ", "1">>
ItemName2 == <<"I", "t", "e", "m", " ", "2">>
ItemDesc1 == <<"D", "e", "s", "c", " ", "1">>
ItemDesc2 == <<"D", "e", "s", "c", " ", "2">>

SeedItems ==
    {[id |-> 1, name |-> ItemName1, description |-> ItemDesc1, category |-> "Category A"],
     [id |-> 2, name |-> ItemName2, description |-> ItemDesc2, category |-> "Category B"]}

SeedReviews ==
    {[id |-> 1, rating |-> 5, content |-> "Excellent product!", userId |-> 1, itemId |-> 1,
      createdAt |-> 0],
     [id |-> 2, rating |-> 4, content |-> "Very good", userId |-> 2, itemId |-> 1,
      createdAt |-> 0]}

SeedComments ==
    {[id |-> 1, content |-> "I agree with this review.", userId |-> 2, reviewId |-> 1,
      createdAt |-> 0],
     [id |-> 2, content |-> "Thanks for the feedback!", userId |-> 1, reviewId |-> 2,
      createdAt |-> 0]}

Init ==
    /\ users = SeedUsers
    /\ items = SeedItems
    /\ reviews = SeedReviews
    /\ comments = SeedComments
    /\ nextUserId = 3
    /\ nextReviewId = 3
    /\ nextCommentId = 3
    /\ now = 0
    /\ issued = {JwtSign(1, JWT_SECRET, 0), JwtSign(2, JWT_SECRET, 0)}
    /\ req = [s \in Slots |-> Idle]

(***************************************************************************)
(* What clients send.                                                      *)
(***************************************************************************)
ProtectedRoutes ==
    {"postReview", "putReview", "delReview", "myReviews",
     "postComment", "putComment", "delComment", "myComments"}
UserIds == 1..MaxUserId

AllHeaders ==
    {NoHeader, <<Word("Bearer")>>, <<Word("Bearer"), EmptyPart>>,
     <<Word("Bearer"), Garbage>>}
      \cup {<<Word("Bearer"), t>> : t \in issued}
      \cup {<<Word("Basic"), t>> : t \in issued}
      \cup {<<Word("Bearer"), Tampered(t, id)>> : t \in issued, id \in UserIds}
      \cup {<<Word("Bearer"), Extended(t)>> : t \in issued}
      \cup {<<Word("Bearer"), Forged(id, now)>> : id \in {1}}

BearerHeaders == {<<Word("Bearer"), t>> : t \in issued}

WriteHeaders == BearerHeaders \cup {NoHeader, <<Word("Bearer"), Garbage>>}

AllParams == {<<"1">>, <<"3">>, <<"x">>}

RegisterBodies ==
    [username : {"testuser1", "newuser"}, email : {Email1, Email3},
     password : {"hunter42"}]
      \cup {[username |-> "nu", email |-> Email3, password |-> "hunter42"],
            [username |-> "newuser", email |-> BadEmail, password |-> "hunter42"],
            [username |-> "newuser", email |-> Email3, password |-> "short"]}

LoginBodies ==
    [email : {Email1, Email3}, password : {SeedPassword, "hunter42"}]
      \cup {[email |-> Email1, password |-> "short"]}

\* a JSON number: its whole part and its first decimal
Num(whole, tenths) == [whole |-> whole, tenths |-> tenths]

PostReviewBodies ==
    [itemId : {1, 2}, rating : {Num(3, 0)}, content : {"Good"}]
      \cup {[itemId |-> 2, rating |-> Num(6, 0), content |-> "Good"],
            [itemId |-> 2, rating |-> Num(4, 5), content |-> "Good"],
            [itemId |-> 2, rating |-> Num(3, 0), content |-> ""]}

PutReviewBodies ==
    {[rating |-> Num(2, 0)], [content |-> "Updated"], [rating |-> Num(0, 0)],
     [rating |-> Num(2, 5)]}

PutCommentBodies == {[content |-> "Edited"], [text |-> "Edited"]}

PostCommentBodies ==
    [reviewId : {1, 3}, content : {"Nice"}] \cup {[reviewId |-> 1, content |-> ""]}

BodiesOf(route) ==
    CASE route = "postReview" -> PostReviewBodies
      [] route = "putReview" -> PutReviewBodies
      [] route = "putComment" -> PutCommentBodies
      [] route = "postComment" -> PostCommentBodies
      [] OTHER -> {NoBody}

ParamsOf(route) ==
    IF route \in {"postReview", "postComment", "myReviews", "myComments"}
    THEN {NoParam} ELSE AllParams

(***************************************************************************)
(* zod schemas: the parsed value, or a ZodError.                           *)
(***************************************************************************)
Has(body, key) == key \in DOMAIN body

\* registerSchema
RegisterValid(body) ==
    /\ Has(body, "username") /\ Len(body.username) >= UsernameMin
    /\ Has(body, "email") /\ IsEmail(body.email)
    /\ Has(body, "password") /\ Len(body.password) >= PasswordMin

\* loginSchema
LoginValid(body) ==
    /\ Has(body, "email") /\ IsEmail(body.email)
    /\ Has(body, "password") /\ Len(body.password) >= PasswordMin

\* z.number().min(lo).max(hi): any number from lo to hi, whole or not
ZMinMax(v, lo, hi) ==
    /\ v.whole >= lo
    /\ v.whole < hi \/ (v.whole = hi /\ v.tenths = 0)

\* createReviewSchema
CreateReviewValid(body) ==
    /\ Has(body, "itemId")
    /\ Has(body, "rating") /\ ZMinMax(body.rating, RatingMin, RatingMax)
    /\ Has(body, "content") /\ Len(body.content) >= ContentMin

\* updateReviewSchema: both fields optional
UpdateReviewValid(body) ==
    /\ Has(body, "rating") => ZMinMax(body.rating, RatingMin, RatingMax)
    /\ Has(body, "content") => Len(body.content) >= ContentMin

\* createCommentSchema
CreateCommentValid(body) ==
    /\ Has(body, "reviewId")
    /\ Has(body, "content") /\ Len(body.content) >= ContentMin

\* updateCommentSchema
UpdateCommentValid(body) ==
    Has(body, "content") /\ Len(body.content) >= ContentMin

(***************************************************************************)
(* authenticateToken.  Its synchronous part runs when the request arrives; *)
(* the user lookup is awaited.                                             *)
(***************************************************************************)
AuthArrive(r) ==
    LET token == HeaderToken(r.headers)
    IN IF Falsy(token)
       THEN Respond(r, ErrorJson(401, "Access token missing"))
       ELSE IF ~JwtVerifies(token, JWT_SECRET, now)
       THEN Respond(r, ErrorJson(403, "Invalid or expired token"))
       ELSE [r EXCEPT !.pc = "auth"]

StartProtected(s, routes, headerSet) ==
    /\ req[s].pc = "idle"
    /\ \E route \in routes, h \in headerSet :
         \E p \in ParamsOf(route), b \in BodiesOf(route) :
           req' = [req EXCEPT ![s] =
                     AuthArrive([Idle EXCEPT !.route = route, !.headers = h,
                                             !.params = p, !.body = b])]
    /\ UNCHANGED <<store, nextUserId, nextReviewId, nextCommentId, now, issued>>

\* the names the handlers of the reviews router can read
ReviewModuleScope ==
    {"express", "prisma", "authenticateToken", "z", "router", "createReviewSchema",
     "updateReviewSchema", "getAllReviewsSchema", "req", "res"}
GetReviewScope == ReviewModuleScope \cup {"reviewId"}
MyReviewsScope == ReviewModuleScope \cup {"userId"}

\* select: { id, username } reads the variables id and username
SelectShorthand == {"id", "username"}

\* GET /reviews/user/me: building the argument of findMany reads names that are
\* not declared, so the query is never made and the catch block answers
MyReviewsEntry(r) ==
    IF ~(SelectShorthand \subseteq MyReviewsScope)
    THEN Respond(r, ErrorJson(500, "Internal server error"))
    ELSE [r EXCEPT !.pc = "find"]

\* GET /comments/user/me
MyCommentsEntry(r) == [r EXCEPT !.pc = "find"]

\* the synchronous head of each protected handler, run by next()
PostReviewEntry(r) ==
    IF ~CreateReviewValid(r.body) THEN Respond(r, ErrorJson(400, ZodIssues))
    ELSE [r EXCEPT !.pc = "find"]

PutReviewEntry(r) ==
    IF ParseInt(r.params).nan THEN Respond(r, ErrorJson(400, "Invalid review ID"))
    ELSE IF ~UpdateReviewValid(r.body) THEN Respond(r, ErrorJson(400, ZodIssues))
    ELSE [r EXCEPT !.pc = "find"]

DeleteReviewEntry(r) ==
    IF ParseInt(r.params).nan THEN Respond(r, ErrorJson(400, "Invalid review ID"))
    ELSE [r EXCEPT !.pc = "find"]

PostCommentEntry(r) ==
    IF ~CreateCommentValid(r.body) THEN Respond(r, ErrorJson(400, ZodIssues))
    ELSE [r EXCEPT !.pc = "find"]

PutCommentEntry(r) ==
    IF ParseInt(r.params).nan THEN Respond(r, ErrorJson(400, "Invalid comment ID."))
    ELSE IF ~UpdateCommentValid(r.body) THEN Respond(r, ErrorJson(400, ZodIssues))
    ELSE [r EXCEPT !.pc = "find"]

DeleteCommentEntry(r) ==
    IF ParseInt(r.params).nan THEN Respond(r, ErrorJson(400, "Invalid comment ID."))
    ELSE [r EXCEPT !.pc = "find"]

HandlerEntry(r) ==
    CASE r.route = "postReview" -> PostReviewEntry(r)
      [] r.route = "putReview" -> PutReviewEntry(r)
      [] r.route = "delReview" -> DeleteReviewEntry(r)
      [] r.route = "postComment" -> PostCommentEntry(r)
      [] r.route = "putComment" -> PutCommentEntry(r)
      [] r.route = "delComment" -> DeleteCommentEntry(r)
      [] r.route = "myReviews" -> MyReviewsEntry(r)
      [] r.route = "myComments" -> MyCommentsEntry(r)

\* a gate without the 'User not found' answer: the handler fails on req.user
AuthLookupUnchecked(r, user) ==
    IF user = NoRec
    THEN Respond(r, ErrorJson(500, "Internal server error"))
    ELSE HandlerEntry([r EXCEPT !.user = user])

\* if (!user) 401; req.user = user; next()
AuthLookup(r, user) ==
    IF user = NoRec
    THEN Respond(r, ErrorJson(401, "User not found"))
    ELSE HandlerEntry([r EXCEPT !.user = user])

\* prisma.user.findUnique({ where: { id: decoded.id } })
AuthResolve(s) ==
    /\ req[s].pc = "auth"
    /\ LET decoded == HeaderToken(req[s].headers)
       IN req' = [req EXCEPT ![s] = AuthLookup(@, FindById(users, decoded.id))]
    /\ UNCHANGED <<store, nextUserId, nextReviewId, nextCommentId, now, issued>>

(***************************************************************************)
(* POST /users/register and POST /users/login.                             *)
(***************************************************************************)
StartRegister(s) ==
    /\ req[s].pc = "idle"
    /\ \E b \in RegisterBodies :
         LET r == [Idle EXCEPT !.route = "register", !.body = b]
         IN req' = [req EXCEPT ![s] =
                      IF ~RegisterValid(b) THEN Respond(r, ErrorJson(400, ZodIssues))
                      ELSE [r EXCEPT !.pc = "find"]]
    /\ UNCHANGED <<store, nextUserId, nextReviewId, nextCommentId, now, issued>>

\* a registration that leaves the email to the store's constraint
RegisterPrecheckSkipped(r, existingUser, salt) ==
    [r EXCEPT !.pc = "write", !.hashed = BcryptHash(r.body.password, salt)]

\* a registration that stores the password as submitted
RegisterHashSkipped(r, existingUser, salt) ==
    IF existingUser # NoRec
    THEN Respond(r, ErrorJson(400, "Email already in use"))
    ELSE [r EXCEPT !.pc = "write", !.hashed = r.body.password]

\* if (existingUser) 400; hashedPassword = await bcrypt.hash(password, 10)
RegisterPrecheck(r, existingUser, salt) ==
    IF existingUser # NoRec
    THEN Respond(r, ErrorJson(400, "Email already in use"))
    ELSE [r EXCEPT !.pc = "write", !.hashed = BcryptHash(r.body.password, salt)]

\* prisma.user.findUnique({ where: { email } })
RegisterFind(s) ==
    /\ req[s].route = "register" /\ req[s].pc = "find"
    /\ \E salt \in Salts :
         req' = [req EXCEPT ![s] =
                   RegisterPrecheck(@, FindUserByEmail(@.body.email), salt)]
    /\ UNCHANGED <<store, nextUserId, nextReviewId, nextCommentId, now, issued>>

\* model User: username @unique, email @unique
UserUniqueViolated(username, email) ==
    \E u \in users : u.username = username \/ u.email = email

\* prisma.user.create({ data, select: { id, username, email, createdAt } })
RegisterCreate(s) ==
    /\ req[s].route = "register" /\ req[s].pc = "write"
    /\ LET b == req[s].body
       IN IF UserUniqueViolated(b.username, b.email)
          THEN /\ req' = [req EXCEPT ![s] =
                            Respond(@, ErrorJson(500, "Internal server error"))]
               /\ UNCHANGED <<users, nextUserId>>
          ELSE /\ nextUserId <= MaxUserId
               /\ users' = users \cup
                    {[id |-> nextUserId, username |-> b.username, email |-> b.email,
                      password |-> req[s].hashed, createdAt |-> now]}
               /\ nextUserId' = nextUserId + 1
               /\ req' = [req EXCEPT ![s] =
                            Respond(@, Json(201,
                              [id |-> nextUserId, username |-> b.username,
                               email |-> b.email, createdAt |-> now]))]
    /\ UNCHANGED <<items, reviews, comments, nextReviewId, nextCommentId, now, issued>>

StartLogin(s) ==
    /\ req[s].pc = "idle"
    /\ \E b \in LoginBodies :
         LET r == [Idle EXCEPT !.route = "login", !.body = b]
         IN req' = [req EXCEPT ![s] =
                      IF ~LoginValid(b) THEN Respond(r, ErrorJson(400, ZodIssues))
                      ELSE [r EXCEPT !.pc = "find"]]
    /\ UNCHANGED <<store, nextUserId, nextReviewId, nextCommentId, now, issued>>

\* findUnique by email, bcrypt.compare, jwt.sign
LoginFind(s) ==
    /\ req[s].route = "login" /\ req[s].pc = "find"
    /\ LET b == req[s].body
           user == FindUserByEmail(b.email)
           token == JwtSign(user.id, JWT_SECRET, now)
       IN IF user = NoRec \/ ~BcryptCompare(b.password, user.password)
          THEN /\ req' = [req EXCEPT ![s] =
                            Respond(@, ErrorJson(400, "Invalid credentials"))]
               /\ UNCHANGED issued
          ELSE /\ req' = [req EXCEPT ![s] = Respond(@, Json(200, [token |-> token]))]
               /\ issued' = IF Cardinality(issued \cup {token}) <= MaxTokens
                            THEN issued \cup {token} ELSE issued
    /\ UNCHANGED <<store, nextUserId, nextReviewId, nextCommentId, now>>

(***************************************************************************)
(* POST /reviews.                                                          *)
(***************************************************************************)
\* prisma.review.findUnique({ where: { userId_itemId } })
FindReviewByUserItem(userId, itemId) ==
    IF \E r \in reviews : r.userId = userId /\ r.itemId = itemId
    THEN CHOOSE r \in reviews : r.userId = userId /\ r.itemId = itemId
    ELSE NoRec

PostReviewFind(s) ==
    /\ req[s].route = "postReview" /\ req[s].pc = "find"
    /\ LET existingReview == FindReviewByUserItem(req[s].user.id, req[s].body.itemId)
       IN req' = [req EXCEPT ![s] =
                    IF existingReview # NoRec
                    THEN Respond(@, ErrorJson(400, "You have already reviewed this item."))
                    ELSE [@ EXCEPT !.pc = "write"]]
    /\ UNCHANGED <<store, nextUserId, nextReviewId, nextCommentId, now, issued>>

\* a reviews table without its compound unique index
ReviewUniqueUnenforced(userId, itemId) == FALSE

\* model Review: @@unique([userId, itemId])
ReviewUniqueViolated(userId, itemId) ==
    \E r \in reviews : r.userId = userId /\ r.itemId = itemId

\* the relations of model Review: connect fails unless both records exist
ReviewParentsMissing(userId, itemId) ==
    \/ FindById(users, userId) = NoRec
    \/ FindById(items, itemId) = NoRec

\* model Review: rating Int; the client refuses a number that is not whole
IntRefused(v) == v.tenths # 0

\* prisma.review.create({ data: { rating, content, user: connect, item: connect } })
PostReviewCreate(s) ==
    /\ req[s].route = "postReview" /\ req[s].pc = "write"
    /\ LET b == req[s].body
           userId == req[s].user.id
       IN IF \/ IntRefused(b.rating)
             \/ ReviewParentsMissing(userId, b.itemId)
             \/ ReviewUniqueViolated(userId, b.itemId)
          THEN /\ req' = [req EXCEPT ![s] =
                            Respond(@, ErrorJson(500, "Internal server error"))]
               /\ UNCHANGED <<reviews, nextReviewId>>
          ELSE /\ nextReviewId <= MaxReviewId
               /\ LET review == [id |-> nextReviewId, rating |-> b.rating.whole,
                                 content |-> b.content, userId |-> userId,
                                 itemId |-> b.itemId, createdAt |-> now]
                  IN /\ reviews' = reviews \cup {review}
                     /\ req' = [req EXCEPT ![s] = Respond(@, Json(201, review))]
               /\ nextReviewId' = nextReviewId + 1
    /\ UNCHANGED <<users, items, comments, nextUserId, nextCommentId, now, issued>>

(***************************************************************************)
(* PUT /reviews/:id and DELETE /reviews/:id.                               *)
(***************************************************************************)
\* a guard without the ownership comparison
ReviewGuardNoOwner(r, existingReview, verb) ==
    IF existingReview = NoRec
    THEN Respond(r, ErrorJson(404, "Review not found"))
    ELSE [r EXCEPT !.pc = "write", !.existing = existingReview]

\* a guard without the existence check
ReviewGuardNoExistence(r, existingReview, verb) ==
    IF existingReview # NoRec /\ existingReview.userId # r.user.id
    THEN Respond(r, ErrorJson(403,
           "You are not authorized to " \o verb \o " this review."))
    ELSE [r EXCEPT !.pc = "write", !.existing = existingReview]

\* if (!existingReview) 404; if (existingReview.userId !== userId) 403
ReviewGuard(r, existingReview, verb) ==
    IF existingReview = NoRec
    THEN Respond(r, ErrorJson(404, "Review not found"))
    ELSE IF existingReview.userId # r.user.id
    THEN Respond(r, ErrorJson(403,
           "You are not authorized to " \o verb \o " this review."))
    ELSE [r EXCEPT !.pc = "write", !.existing = existingReview]

PutReviewFind(s) ==
    /\ req[s].route = "putReview" /\ req[s].pc = "find"
    /\ req' = [req EXCEPT ![s] =
                 ReviewGuard(@, FindById(reviews, ParseInt(@.params).val), "update")]
    /\ UNCHANGED <<store, nextUserId, nextReviewId, nextCommentId, now, issued>>

\* data: { rating: rating !== undefined ? rating : existingReview.rating, ... }
UpdateData(body, existingReview) ==
    [rating |-> IF Has(body, "rating") THEN body.rating
                ELSE Num(existingReview.rating, 0),
     content |-> IF Has(body, "content") THEN body.content ELSE existingReview.content]

\* prisma.review.update({ where: { id }, data }): throws when the record is gone
\* or the rating is not whole
PutReviewUpdate(s) ==
    /\ req[s].route = "putReview" /\ req[s].pc = "write"
    /\ LET id == ParseInt(req[s].params).val
           stored == FindById(reviews, id)
           data == UpdateData(req[s].body, req[s].existing)
           updated == [stored EXCEPT !.rating = data.rating.whole,
                                     !.content = data.content]
       IN IF stored = NoRec \/ IntRefused(data.rating)
          THEN /\ req' = [req EXCEPT ![s] =
                            Respond(@, ErrorJson(500, "Internal server error"))]
               /\ UNCHANGED reviews
          ELSE /\ reviews' = (reviews \ {stored}) \cup {updated}
               /\ req' = [req EXCEPT ![s] = Respond(@, Json(200, updated))]
    /\ UNCHANGED <<users, items, comments, nextUserId, nextReviewId, nextCommentId,
                   now, issued>>

DelReviewFind(s) ==
    /\ req[s].route = "delReview" /\ req[s].pc = "find"
    /\ req' = [req EXCEPT ![s] =
                 ReviewGuard(@, FindById(reviews, ParseInt(@.params).val), "delete")]
    /\ UNCHANGED <<store, nextUserId, nextReviewId, nextCommentId, now, issued>>

\* prisma.review.delete({ where: { id } }); comments go with it (onDelete: Cascade)
DelReviewDelete(s) ==
    /\ req[s].route = "delReview" /\ req[s].pc = "write"
    /\ LET stored == FindById(reviews, ParseInt(req[s].params).val)
       IN IF stored = NoRec
          THEN /\ req' = [req EXCEPT ![s] =
                            Respond(@, ErrorJson(500, "Internal server error"))]
               /\ UNCHANGED <<reviews, comments>>
          ELSE /\ reviews' = reviews \ {stored}
               /\ comments' = comments \ CommentsOfReviews({stored})
               /\ req' = [req EXCEPT ![s] =
                            Respond(@, Json(200, [message |-> "Review deleted successfully."]))]
    /\ UNCHANGED <<users, items, nextUserId, nextReviewId, nextCommentId, now, issued>>

(***************************************************************************)
(* POST /comments.                                                         *)
(***************************************************************************)
\* a handler that creates the comment without looking for the review
PostCommentFindSkipped(s) ==
    /\ req[s].route = "postComment" /\ req[s].pc = "find"
    /\ req' = [req EXCEPT ![s] = [@ EXCEPT !.pc = "write"]]
    /\ UNCHANGED <<store, nextUserId, nextReviewId, nextCommentId, now, issued>>

\* prisma.review.findUnique({ where: { id: reviewId } }); if (!review) 404
PostCommentFind(s) ==
    /\ req[s].route = "postComment" /\ req[s].pc = "find"
    /\ LET review == FindById(reviews, req[s].body.reviewId)
       IN req' = [req EXCEPT ![s] =
                    IF review = NoRec
                    THEN Respond(@, ErrorJson(404, "Review not found."))
                    ELSE [@ EXCEPT !.pc = "write"]]
    /\ UNCHANGED <<store, nextUserId, nextReviewId, nextCommentId, now, issued>>

\* the relations of model Comment: connect fails unless both records exist
CommentParentsMissing(userId, reviewId) ==
    \/ FindById(users, userId) = NoRec
    \/ FindById(reviews, reviewId) = NoRec

\* prisma.comment.create({ data: { content, user: connect, review: connect },
\*                         include: { user, review } })
PostCommentCreate(s) ==
    /\ req[s].route = "postComment" /\ req[s].pc = "write"
    /\ LET b == req[s].body
           userId == req[s].user.id
       IN IF CommentParentsMissing(userId, b.reviewId)
          THEN /\ req' = [req EXCEPT ![s] =
                            Respond(@, ErrorJson(500, "Internal server error"))]
               /\ UNCHANGED <<comments, nextCommentId>>
          ELSE /\ nextCommentId <= MaxCommentId
               /\ LET comment == [id |-> nextCommentId, content |-> b.content,
                                  userId |-> userId, reviewId |-> b.reviewId,
                                  createdAt |-> now]
                      user == FindById(users, userId)
                      review == FindById(reviews, b.reviewId)
                  IN /\ comments' = comments \cup {comment}
                     /\ req' = [req EXCEPT ![s] =
                          Respond(@, Json(201,
                            [id |-> comment.id, content |-> comment.content,
                             userId |-> userId, reviewId |-> b.reviewId,
                             createdAt |-> now,
                             user |-> [id |-> user.id, username |-> user.username],
                             review |-> [id |-> review.id, content |-> review.content]]))]
               /\ nextCommentId' = nextCommentId + 1
    /\ UNCHANGED <<users, items, reviews, nextUserId, nextReviewId, now, issued>>

(***************************************************************************)
(* PUT /comments/:id and DELETE /comments/:id.                             *)
(***************************************************************************)
\* a guard without the ownership comparison
CommentGuardNoOwner(r, existingComment, verb) ==
    IF existingComment = NoRec
    THEN Respond(r, ErrorJson(404, "Comment not found."))
    ELSE [r EXCEPT !.pc = "write", !.existing = existingComment]

\* if (!existingComment) 404; if (existingComment.userId !== userId) 403
CommentGuard(r, existingComment, verb) ==
    IF existingComment = NoRec
    THEN Respond(r, ErrorJson(404, "Comment not found."))
    ELSE IF existingComment.userId # r.user.id
    THEN Respond(r, ErrorJson(403,
           "You are not authorized to " \o verb \o " this comment."))
    ELSE [r EXCEPT !.pc = "write", !.existing = existingComment]

PutCommentFind(s) ==
    /\ req[s].route = "putComment" /\ req[s].pc = "find"
    /\ req' = [req EXCEPT ![s] =
                 CommentGuard(@, FindById(comments, ParseInt(@.params).val), "update")]
    /\ UNCHANGED <<store, nextUserId, nextReviewId, nextCommentId, now, issued>>

\* prisma.comment.update({ where: { id }, data: { content } })
PutCommentUpdate(s) ==
    /\ req[s].route = "putComment" /\ req[s].pc = "write"
    /\ LET stored == FindById(comments, ParseInt(req[s].params).val)
           updated == [stored EXCEPT !.content = req[s].body.content]
       IN IF stored = NoRec
          THEN /\ req' = [req EXCEPT ![s] =
                            Respond(@, ErrorJson(500, "Internal server error"))]
               /\ UNCHANGED comments
          ELSE /\ comments' = (comments \ {stored}) \cup {updated}
               /\ req' = [req EXCEPT ![s] = Respond(@, Json(200, updated))]
    /\ UNCHANGED <<users, items, reviews, nextUserId, nextReviewId, nextCommentId,
                   now, issued>>

DelCommentFind(s) ==
    /\ req[s].route = "delComment" /\ req[s].pc = "find"
    /\ req' = [req EXCEPT ![s] =
                 CommentGuard(@, FindById(comments, ParseInt(@.params).val), "delete")]
    /\ UNCHANGED <<store, nextUserId, nextReviewId, nextCommentId, now, issued>>

\* a delete that removes the row and then fails to answer
DelCommentDeleteThenFails(s) ==
    /\ req[s].route = "delComment" /\ req[s].pc = "write"
    /\ comments' = comments \ {FindById(comments, ParseInt(req[s].params).val)}
    /\ req' = [req EXCEPT ![s] = Respond(@, ErrorJson(500, "Internal server error"))]
    /\ UNCHANGED <<users, items, reviews, nextUserId, nextReviewId, nextCommentId,
                   now, issued>>

\* prisma.comment.delete({ where: { id } })
DelCommentDelete(s) ==
    /\ req[s].route = "delComment" /\ req[s].pc = "write"
    /\ LET stored == FindById(comments, ParseInt(req[s].params).val)
       IN IF stored = NoRec
          THEN /\ req' = [req EXCEPT ![s] =
                            Respond(@, ErrorJson(500, "Internal server error"))]
               /\ UNCHANGED comments
          ELSE /\ comments' = comments \ {stored}
               /\ req' = [req EXCEPT ![s] =
                            Respond(@, Json(200, [message |-> "Comment deleted successfully."]))]
    /\ UNCHANGED <<users, items, reviews, nextUserId, nextReviewId, nextCommentId,
                   now, issued>>

(***************************************************************************)
(* GET /items and GET /items/:id.                                          *)
(***************************************************************************)
\* req.query holds text: every value the query parser yields is a string
QueryValue(text) == [type |-> "string", text |-> text]

\* z.number().int().min(lo): no coercion, a string is refused
ZNumber(v, lo) == v.type = "number" /\ v.num >= lo

\* querySchema
ItemQueryValid(q) ==
    /\ Has(q, "search") => q.search.type = "string"
    /\ Has(q, "category") => q.category.type = "string"
    /\ Has(q, "page") => ZNumber(q.page, PageMin)
    /\ Has(q, "limit") => (ZNumber(q.limit, LimitMin) /\ q.limit.num <= LimitMax)

\* the parsed query: page and limit default when absent
ItemQueryParsed(q) ==
    [page |-> IF Has(q, "page") THEN q.page.num ELSE PageDefault,
     limit |-> IF Has(q, "limit") THEN q.limit.num ELSE LimitDefault]

\* mode: 'insensitive'
Lower(c) ==
    CASE c = "I" -> "i" [] c = "D" -> "d" [] c = "T" -> "t" [] OTHER -> c

\* { contains: search, mode: 'insensitive' }
Contains(t, sub) ==
    \E i \in 0..(Len(t) - Len(sub)) :
      \A j \in 1..Len(sub) : Lower(t[i + j]) = Lower(sub[j])

\* the where clause built from search and category; '' is falsy
ItemWhere(item, q) ==
    /\ (Has(q, "search") /\ q.search.text # << >>)
       => (Contains(item.name, q.search.text) \/ Contains(item.description, q.search.text))
    /\ (Has(q, "category") /\ q.category.text # "")
       => item.category = q.category.text

\* findMany without orderBy: the store returns the rows in an order of its own
Orderings(S) ==
    {f \in [1..Cardinality(S) -> S] :
       \A i, j \in 1..Cardinality(S) : i # j => f[i] # f[j]}

\* skip and take
SkipTake(rows, skip, take) ==
    [k \in 1..(IF Len(rows) - skip > take THEN take
               ELSE IF Len(rows) > skip THEN Len(rows) - skip ELSE 0) |-> rows[skip + k]]

ReviewsOfItem(itemId) == {r \in reviews : r.itemId = itemId}

RECURSIVE SumRatings(_)
\* item.reviews.reduce((acc, curr) => acc + curr.rating, 0)
SumRatings(rs) ==
    IF rs = {} THEN 0
    ELSE LET r == CHOOSE x \in rs : TRUE
         IN r.rating + SumRatings(rs \ {r})

Null == [null |-> TRUE]

\* reviews.length > 0 ? sum / reviews.length : null, as a fraction
RawAverage(rs) ==
    IF Cardinality(rs) > 0
    THEN [null |-> FALSE, num |-> SumRatings(rs), den |-> Cardinality(rs)]
    ELSE Null

RECURSIVE Pow10(_)
Pow10(n) == IF n = 0 THEN 1 ELSE 10 * Pow10(n - 1)

\* a rounding that cuts the digits after the second decimal
ToFixedTruncating(avg) == (Pow10(Decimals) * avg.num) \div avg.den

\* x.toFixed(2): the nearest number of hundredths, the larger of two nearest
ToFixed(avg) == (2 * Pow10(Decimals) * avg.num + avg.den) \div (2 * avg.den)

\* parseFloat of the digits: a number, here counted in hundredths
ParseFloat(hundredths) == [null |-> FALSE, hundredths |-> hundredths]

\* averageRating ? parseFloat(averageRating.toFixed(2)) : null  (0 is falsy)
AverageRating(rs) ==
    LET averageRating == RawAverage(rs)
    IN IF ~averageRating.null /\ averageRating.num # 0
       THEN ParseFloat(ToFixed(averageRating))
       ELSE Null

\* { ...item, averageRating, reviews: undefined }: JSON drops the undefined key
ItemWithAvgRating(item) ==
    [id |-> item.id, name |-> item.name, description |-> item.description,
     category |-> item.category, averageRating |-> AverageRating(ReviewsOfItem(item.id))]

ItemQueries ==
    {NoBody,
     [search |-> QueryValue(<<"i", "t", "e", "m", " ", "1">>)],
     [search |-> QueryValue(<< >>)],
     [category |-> QueryValue("Category B")],
     [page |-> QueryValue(<<"2">>), limit |-> QueryValue(<<"1", "0">>)],
     [page |-> QueryValue(<<"1">>)]}

StartGetItems(s) ==
    /\ req[s].pc = "idle"
    /\ \E q \in ItemQueries :
         LET r == [Idle EXCEPT !.route = "getItems", !.query = q]
         IN req' = [req EXCEPT ![s] =
                      IF ~ItemQueryValid(q) THEN Respond(r, ErrorJson(400, ZodIssues))
                      ELSE [r EXCEPT !.pc = "find"]]
    /\ UNCHANGED <<store, nextUserId, nextReviewId, nextCommentId, now, issued>>

\* prisma.item.findMany({ where, skip, take, include: { reviews } }) and the map
GetItemsFind(s) ==
    /\ req[s].route = "getItems" /\ req[s].pc = "find"
    /\ LET q == req[s].query
           parsed == ItemQueryParsed(q)
       IN \E rows \in Orderings({i \in items : ItemWhere(i, q)}) :
            LET page == SkipTake(rows, (parsed.page - 1) * parsed.limit, parsed.limit)
            IN req' = [req EXCEPT ![s] =
                         Respond(@, Json(200,
                           [page |-> parsed.page, limit |-> parsed.limit,
                            items |-> [k \in 1..Len(page) |-> ItemWithAvgRating(page[k])]]))]
    /\ UNCHANGED <<store, nextUserId, nextReviewId, nextCommentId, now, issued>>

\* the names the handler of GET /items/:id can read
GetItemScope ==
    {"express", "prisma", "z", "router", "querySchema", "req", "res", "itemId"}

\* GET /items/:id: building the argument of findUnique reads names that are not
\* declared, so the lookup is never made and the catch block answers
StartGetItem(s) ==
    /\ req[s].pc = "idle"
    /\ \E p \in AllParams :
         LET r == [Idle EXCEPT !.route = "getItem", !.params = p]
         IN req' = [req EXCEPT ![s] =
                      IF ParseInt(p).nan THEN Respond(r, ErrorJson(400, "Invalid item ID"))
                      ELSE IF ~(SelectShorthand \subseteq GetItemScope)
                      THEN Respond(r, ErrorJson(500, "Internal server error"))
                      ELSE [r EXCEPT !.pc = "find"]]
    /\ UNCHANGED <<store, nextUserId, nextReviewId, nextCommentId, now, issued>>

(***************************************************************************)
(* GET /reviews/:id, GET /comments/:id, GET /comments/user/me.             *)
(***************************************************************************)
\* GET /reviews/:id: as in GET /items/:id the argument of findUnique reads
\* undeclared names, so the lookup is never made
StartGetReview(s) ==
    /\ req[s].pc = "idle"
    /\ \E p \in AllParams :
         LET r == [Idle EXCEPT !.route = "getReview", !.params = p]
         IN req' = [req EXCEPT ![s] =
                      IF ParseInt(p).nan THEN Respond(r, ErrorJson(400, "Invalid review ID"))
                      ELSE IF ~(SelectShorthand \subseteq GetReviewScope)
                      THEN Respond(r, ErrorJson(500, "Internal server error"))
                      ELSE [r EXCEPT !.pc = "find"]]
    /\ UNCHANGED <<store, nextUserId, nextReviewId, nextCommentId, now, issued>>

\* the GET routes the comments router declares
CommentGetPaths == {<<>>, <<"user", "me">>}

\* what the framework answers when no route matches: 404 and an HTML page
CannotGet == [status |-> 404, body |-> [html |-> "Cannot GET"]]

\* GET /comments/:id: the router has no such route
StartGetComment(s) ==
    /\ req[s].pc = "idle"
    /\ \E p \in AllParams :
         LET r == [Idle EXCEPT !.route = "getComment", !.params = p]
         IN req' = [req EXCEPT ![s] =
                      IF <<p>> \notin CommentGetPaths THEN Respond(r, CannotGet)
                      ELSE [r EXCEPT !.pc = "find"]]
    /\ UNCHANGED <<store, nextUserId, nextReviewId, nextCommentId, now, issued>>

\* orderBy: { createdAt: 'desc' }: rows of one createdAt come in the store's order
OrderedDesc(S) ==
    {f \in Orderings(S) :
       \A i, j \in 1..Cardinality(S) : i < j => f[i].createdAt >= f[j].createdAt}

\* include: { review: { select: { id, content } } }
CommentWithReview(c) ==
    LET review == FindById(reviews, c.reviewId)
    IN [id |-> c.id, content |-> c.content, userId |-> c.userId,
        reviewId |-> c.reviewId, createdAt |-> c.createdAt,
        review |-> [id |-> review.id, content |-> review.content]]

\* prisma.comment.findMany({ where: { userId }, include, orderBy }); res.json
MyCommentsFind(s) ==
    /\ req[s].route = "myComments" /\ req[s].pc = "find"
    /\ \E rows \in OrderedDesc({c \in comments : c.userId = req[s].user.id}) :
         req' = [req EXCEPT ![s] =
                   Respond(@, Json(200,
                     [comments |-> [k \in 1..Len(rows) |-> CommentWithReview(rows[k])]]))]
    /\ UNCHANGED <<store, nextUserId, nextReviewId, nextCommentId, now, issued>>

(***************************************************************************)
(* The environment: the response is read, time passes, a user is removed   *)
(* from the store (its reviews and comments go with it).                   *)
(***************************************************************************)
Finish(s) ==
    /\ req[s].pc = "done"
    /\ req' = [req EXCEPT ![s] = Idle]
    /\ UNCHANGED <<store, nextUserId, nextReviewId, nextCommentId, now, issued>>

Tick ==
    /\ now + TickStep <= MaxTime
    /\ now' = now + TickStep
    /\ UNCHANGED <<store, nextUserId, nextReviewId, nextCommentId, issued, req>>

\* prisma.user.deleteMany({ where: { email } }) with the schema's cascades
DeleteUser(u) ==
    /\ u \in users
    /\ users' = users \ {u}
    /\ reviews' = reviews \ ReviewsOfUser(u.id)
    /\ comments' = {c \in comments :
                      c.userId # u.id /\ c \notin CommentsOfReviews(ReviewsOfUser(u.id))}
    /\ UNCHANGED <<items, nextUserId, nextReviewId, nextCommentId, now, issued, req>>

\* a deletion of an item that leaves its reviews behind
DeleteItemNoCascade(i) ==
    /\ i \in items
    /\ items' = items \ {i}
    /\ UNCHANGED <<users, reviews, comments, nextUserId, nextReviewId, nextCommentId,
                   now, issued, req>>

\* prisma.item.deleteMany({ where: { id } }) with the schema's cascades
DeleteItem(i) ==
    /\ i \in items
    /\ items' = items \ {i}
    /\ reviews' = reviews \ ReviewsOfItem(i.id)
    /\ comments' = comments \ CommentsOfReviews(ReviewsOfItem(i.id))
    /\ UNCHANGED <<users, nextUserId, nextReviewId, nextCommentId, now, issued, req>>

(***************************************************************************)
(* The specifications, one per group of routes; each is the whole code of  *)
(* its routes driven by the requests clients may send to them.             *)
(*   SpecAuth    the gate: every kind of header, the clock, logins and     *)
(*               user deletion, one request at a time                      *)
(*   SpecUsers   register and login, two requests in flight                *)
(*   SpecReviews create and delete review, two requests in flight          *)
(*   SpecOwner   update and delete of reviews and comments, two requests   *)
(*               in flight                                                 *)
(***************************************************************************)
AuthRoutes == {"postReview", "delComment"}
ReviewRoutes == {"postReview", "delReview"}
OwnerRoutes == {"putReview", "delReview", "putComment", "delComment"}

NextAuth ==
    \/ \E s \in SeqSlots :
         \/ StartProtected(s, AuthRoutes, AllHeaders)
         \/ StartLogin(s)
         \/ AuthResolve(s)
         \/ LoginFind(s)
         \/ PostReviewFind(s)
         \/ PostReviewCreate(s)
         \/ DelCommentFind(s)
         \/ DelCommentDelete(s)
         \/ Finish(s)
    \/ Tick
    \/ \E u \in users : DeleteUser(u)

SpecAuth == Init /\ [][NextAuth]_vars

NextUsers ==
    \/ \E s \in Slots :
         \/ StartRegister(s)
         \/ StartLogin(s)
         \/ RegisterFind(s)
         \/ RegisterCreate(s)
         \/ LoginFind(s)
         \/ Finish(s)
    \/ \E u \in users : DeleteUser(u)

SpecUsers == Init /\ [][NextUsers]_vars

NextReviews ==
    \E s \in Slots :
      \/ StartProtected(s, ReviewRoutes, BearerHeaders)
      \/ AuthResolve(s)
      \/ PostReviewFind(s)
      \/ PostReviewCreate(s)
      \/ DelReviewFind(s)
      \/ DelReviewDelete(s)
      \/ Finish(s)

SpecReviews == Init /\ [][NextReviews]_vars

NextOwner ==
    \E s \in Slots :
      \/ StartProtected(s, OwnerRoutes, BearerHeaders)
      \/ AuthResolve(s)
      \/ PutReviewFind(s)
      \/ PutReviewUpdate(s)
      \/ DelReviewFind(s)
      \/ DelReviewDelete(s)
      \/ PutCommentFind(s)
      \/ PutCommentUpdate(s)
      \/ DelCommentFind(s)
      \/ DelCommentDelete(s)
      \/ Finish(s)

SpecOwner == Init /\ [][NextOwner]_vars

\* SpecItems: the item reads, one request at a time, between the requests that
\* change the reviews they average (a third user registers and logs in)
ItemRoutes == {"postReview", "putReview", "delReview"}

NextItems ==
    \E s \in SeqSlots :
      \/ StartGetItems(s)
      \/ GetItemsFind(s)
      \/ StartGetItem(s)
      \/ StartRegister(s)
      \/ RegisterFind(s)
      \/ RegisterCreate(s)
      \/ StartLogin(s)
      \/ LoginFind(s)
      \/ StartProtected(s, ItemRoutes, BearerHeaders)
      \/ AuthResolve(s)
      \/ PostReviewFind(s)
      \/ PostReviewCreate(s)
      \/ PutReviewFind(s)
      \/ PutReviewUpdate(s)
      \/ DelReviewFind(s)
      \/ DelReviewDelete(s)
      \/ Finish(s)

SpecItems == Init /\ [][NextItems]_vars

\* SpecComments: comments and reviews created, one request at a time, while
\* users, items and reviews are deleted between the request's steps
CommentRoutes == {"postComment", "postReview", "delReview"}

NextComments ==
    \/ \E s \in SeqSlots :
         \/ StartProtected(s, CommentRoutes, BearerHeaders)
         \/ AuthResolve(s)
         \/ PostCommentFind(s)
         \/ PostCommentCreate(s)
         \/ PostReviewFind(s)
         \/ PostReviewCreate(s)
         \/ DelReviewFind(s)
         \/ DelReviewDelete(s)
         \/ Finish(s)
    \/ \E u \in users : DeleteUser(u)
    \/ \E i \in items : DeleteItem(i)

SpecComments == Init /\ [][NextComments]_vars

\* SpecReads: the reads of single reviews and comments and of the caller's own
\* records, one request at a time, between deletions and creations, as time passes
ReadRoutes == {"delReview", "delComment", "postComment", "myReviews", "myComments"}

NextReads ==
    \/ \E s \in SeqSlots :
         \/ StartGetReview(s)
         \/ StartGetComment(s)
         \/ StartProtected(s, ReadRoutes, BearerHeaders)
         \/ AuthResolve(s)
         \/ MyCommentsFind(s)
         \/ PostCommentFind(s)
         \/ PostCommentCreate(s)
         \/ DelReviewFind(s)
         \/ DelReviewDelete(s)
         \/ DelCommentFind(s)
         \/ DelCommentDelete(s)
         \/ Finish(s)
    \/ Tick

SpecReads == Init /\ [][NextReads]_vars

\* SpecWrites: registration and the creating, updating and deleting routes of
\* reviews and comments, one request at a time, refused at the gate, at the
\* schema, at the guard or by the store, with users deleted between the steps
WriteRoutes == {"postReview", "putReview", "putComment", "delComment"}

NextWrites ==
    \/ \E s \in SeqSlots :
         \/ StartRegister(s)
         \/ RegisterFind(s)
         \/ RegisterCreate(s)
         \/ StartProtected(s, WriteRoutes, WriteHeaders)
         \/ AuthResolve(s)
         \/ PostReviewFind(s)
         \/ PostReviewCreate(s)
         \/ PutReviewFind(s)
         \/ PutReviewUpdate(s)
         \/ PutCommentFind(s)
         \/ PutCommentUpdate(s)
         \/ DelCommentFind(s)
         \/ DelCommentDelete(s)
         \/ Finish(s)
    \/ \E u \in users : DeleteUser(u)

SpecWrites == Init /\ [][NextWrites]_vars

(***************************************************************************)
(* Storage failures: an awaited prisma call rejects (the database cannot   *)
(* be reached) and the enclosing catch block answers.  Nothing is written. *)
(***************************************************************************)
\* authenticateToken: prisma.user.findUnique rejects inside the try that also
\* holds jwt.verify, and its catch answers 403 for whatever was thrown
AuthResolveRejects(s) ==
    /\ req[s].pc = "auth"
    /\ req' = [req EXCEPT ![s] = Respond(@, ErrorJson(403, "Invalid or expired token"))]
    /\ UNCHANGED <<store, nextUserId, nextReviewId, nextCommentId, now, issued>>

\* a handler's findUnique, create, update or delete rejects: the error is not a
\* ZodError, so the catch block logs it and answers 500
HandlerStoreRejects(s) ==
    /\ req[s].route \in ProtectedRoutes
    /\ req[s].pc \in {"find", "write"}
    /\ req' = [req EXCEPT ![s] = Respond(@, ErrorJson(500, "Internal server error"))]
    /\ UNCHANGED <<store, nextUserId, nextReviewId, nextCommentId, now, issued>>

\* SpecFaults: the protected writing routes, one request at a time, with a store
\* that may fail at any awaited call
FaultRoutes == {"postReview", "putReview", "delComment"}

NextFaults ==
    \E s \in SeqSlots :
      \/ StartProtected(s, FaultRoutes, WriteHeaders)
      \/ AuthResolve(s)
      \/ AuthResolveRejects(s)
      \/ PostReviewFind(s)
      \/ PostReviewCreate(s)
      \/ PutReviewFind(s)
      \/ PutReviewUpdate(s)
      \/ DelCommentFind(s)
      \/ DelCommentDelete(s)
      \/ HandlerStoreRejects(s)
      \/ Finish(s)

SpecFaults == Init /\ [][NextFaults]_vars

(***************************************************************************)
(* Properties.  A step of request s is one that changes req[s].            *)
(***************************************************************************)
Arrives(s) == req[s].pc = "idle" /\ req'[s].pc # "idle"
Answers(s) == req[s].pc \in {"auth", "find", "write"} /\ req'[s].pc = "done"
SamePair(a, b) == a.user.id = b.user.id /\ a.body.itemId = b.body.itemId

\* C1: in every reachable state there is at most one Review per (user, item)
\* pair, also after two creates for the same pair have both passed the pre-check.
C1_OneReviewPerUserItem ==
    \A r1, r2 \in reviews :
      (r1.userId = r2.userId /\ r1.itemId = r2.itemId) => r1 = r2

\* two creates of the same pair both reached the create: one stored, one refused
C1_Witness ==
    \E s, t \in Slots :
      /\ s # t
      /\ req[s].route = "postReview" /\ req[t].route = "postReview"
      /\ req[s].pc = "done" /\ req[t].pc = "done"
      /\ SamePair(req[s], req[t])
      /\ req[s].res.status = 201 /\ req[t].res.status = 500

\* C2: a POST /reviews by U for I that is answered while a Review of (U, I) is
\* in the store is answered 400 'You have already reviewed this item.', whether
\* the two creates ran one after the other or interleaved.
C2_DuplicateAlways400 ==
    [][\A s \in Slots :
         (/\ req[s].route = "postReview"
          /\ Answers(s)
          /\ req[s].pc \in {"find", "write"}
          /\ ReviewUniqueViolated(req[s].user.id, req[s].body.itemId))
         => req'[s].res = ErrorJson(400, "You have already reviewed this item.")]_vars

(***************************************************************************)
(* Ownership: the record a PUT or DELETE names, and who may change it.     *)
(***************************************************************************)
OnReview(r) == r.route \in {"putReview", "delReview"}
OnComment(r) == r.route \in {"putComment", "delComment"}
NumericId(r) == ~ParseInt(r.params).nan
Target(r) ==
    FindById(IF OnReview(r) THEN reviews ELSE comments, ParseInt(r.params).val)

Forbidden(route) ==
    CASE route = "putReview" -> ErrorJson(403, "You are not authorized to update this review.")
      [] route = "delReview" -> ErrorJson(403, "You are not authorized to delete this review.")
      [] route = "putComment" -> ErrorJson(403, "You are not authorized to update this comment.")
      [] route = "delComment" -> ErrorJson(403, "You are not authorized to delete this comment.")

NotFound(route) ==
    IF route \in {"putReview", "delReview"}
    THEN ErrorJson(404, "Review not found")
    ELSE ErrorJson(404, "Comment not found.")

BodyValid(r) ==
    CASE r.route = "putReview" -> UpdateReviewValid(r.body)
      [] r.route = "putComment" -> UpdateCommentValid(r.body)
      [] OTHER -> TRUE

\* request s writes the record with this id as the user with this id
WritesAs(s, onReview, id, userId) ==
    /\ req[s].pc = "write" /\ req'[s].pc = "done"
    /\ OnReview(req[s]) = onReview /\ OnComment(req[s]) = ~onReview
    /\ ParseInt(req[s].params).val = id
    /\ req[s].user.id = userId

\* C3 as stated: every answer to an authenticated PUT or DELETE by a user who is
\* not the author of the existing Review or Comment it names is 403.
C3_NonAuthorAlways403 ==
    [][\A s \in Slots :
         (/\ req[s].route \in OwnerRoutes
          /\ Answers(s)
          /\ req'[s].user # NoRec
          /\ NumericId(req[s])
          /\ Target(req[s]) # NoRec
          /\ Target(req[s]).userId # req'[s].user.id)
         => req'[s].res = Forbidden(req[s].route)]_vars

\* C3 amended: a DELETE, or a PUT with a schema-valid body, by an authenticated
\* user who is not the author of the Review or Comment found by the handler's
\* lookup is answered 403 with the resource's message and changes nothing; and
\* every change or direct deletion of a Review or Comment is the write of a
\* request authenticated as its author (a Comment also goes with its Review).
C3_OnlyAuthorMutates ==
    [][/\ \A s \in Slots :
            (/\ req[s].route \in OwnerRoutes
             /\ req[s].pc = "find" /\ req'[s] # req[s]
             /\ Target(req[s]) # NoRec
             /\ Target(req[s]).userId # req[s].user.id)
            => (/\ req'[s].pc = "done"
                /\ req'[s].res = Forbidden(req[s].route)
                /\ store' = store)
       /\ \A r \in reviews :
            FindById(reviews', r.id) # r
            => \E s \in Slots : WritesAs(s, TRUE, r.id, r.userId)
       /\ \A c \in comments :
            FindById(comments', c.id) # c
            => \/ \E s \in Slots : WritesAs(s, FALSE, c.id, c.userId)
               \/ \E s \in Slots :
                    /\ req[s].route = "delReview"
                    /\ WritesAs(s, TRUE, c.reviewId, FindById(reviews, c.reviewId).userId)
      ]_vars

\* a non-author's PUT was refused and the review is as the seed left it
C3_Witness ==
    \E s \in Slots :
      /\ req[s].route = "putReview" /\ req[s].pc = "done"
      /\ req[s].res = Forbidden("putReview")
      /\ Target(req[s]) \in SeedReviews
      /\ Target(req[s]).userId # req[s].user.id

\* C4 as stated: every answer to an authenticated PUT or DELETE whose numeric id
\* names no stored Review or Comment is 404, whatever the caller and the body.
C4_MissingAlways404 ==
    [][\A s \in Slots :
         (/\ req[s].route \in OwnerRoutes
          /\ Answers(s)
          /\ req'[s].user # NoRec
          /\ NumericId(req[s])
          /\ Target(req[s]) = NoRec)
         => req'[s].res = NotFound(req[s].route)]_vars

\* C4 amended: an authenticated DELETE, or PUT with a schema-valid body, whose
\* numeric id names no Review or Comment when the handler looks it up is answered
\* 404 ('Review not found' / 'Comment not found.') for every caller, never 403,
\* and changes nothing; a PUT whose body fails the schema is answered 400 before
\* the lookup.
C4_MissingIs404 ==
    [][\A s \in Slots :
         /\ (/\ req[s].route \in OwnerRoutes
             /\ req[s].pc = "find" /\ req'[s] # req[s]
             /\ Target(req[s]) = NoRec)
            => (/\ req'[s].pc = "done"
                /\ req'[s].res = NotFound(req[s].route)
                /\ store' = store)
         /\ (/\ req[s].route \in OwnerRoutes
             /\ req[s].pc = "auth" /\ req'[s].user # NoRec
             /\ NumericId(req[s]))
            => IF BodyValid(req[s]) THEN req'[s].pc = "find"
               ELSE req'[s].res = ErrorJson(400, ZodIssues)
      ]_vars

\* a PUT by a user of an id that names nothing was answered 404
C4_Witness ==
    \E s \in Slots :
      /\ req[s].route \in {"putReview", "putComment"} /\ req[s].pc = "done"
      /\ req[s].user # NoRec
      /\ Target(req[s]) = NoRec
      /\ req[s].res = NotFound(req[s].route)

(***************************************************************************)
(* The gate.                                                               *)
(***************************************************************************)
\* the header is 'Bearer <token>' with a token in it
HasBearer(h) ==
    /\ Len(h) = 2
    /\ h[1] = Word("Bearer")
    /\ h[2].kind \notin {"empty", "undefined"}

\* the token is one the server signed, unchanged, and t is inside its hour
Genuine(token, t) ==
    /\ token.kind = "jwt"
    /\ token = JwtSign(token.id, JWT_SECRET, token.iat)
    /\ t < token.iat + ExpiresIn

Protected(s) == req'[s].route \in ProtectedRoutes
Carried(s) == HeaderToken(req'[s].headers)
GateStep(s) == req[s].pc \in {"idle", "auth"} /\ req'[s] # req[s] /\ Protected(s)

\* C5: for a request to a protected route the gate answers 401 'Access token
\* missing' when the header holds no bearer token, 403 'Invalid or expired token'
\* when the bearer token fails verification, 401 'User not found' when it
\* verifies and no user has its id, and otherwise runs the handler with the
\* stored user of that id attached; the gate never changes the store.
C5_GateOutcomes ==
    [][\A s \in Slots :
         /\ (Arrives(s) /\ Protected(s))
            => IF ~HasBearer(req'[s].headers)
               THEN req'[s].res = ErrorJson(401, "Access token missing")
               ELSE IF ~Genuine(Carried(s), now)
               THEN req'[s].res = ErrorJson(403, "Invalid or expired token")
               ELSE req'[s].pc = "auth"
         /\ (req[s].pc = "auth" /\ req'[s] # req[s])
            => IF FindById(users, Carried(s).id) = NoRec
               THEN req'[s].res = ErrorJson(401, "User not found")
               ELSE /\ req'[s].user \in users
                    /\ req'[s].user.id = Carried(s).id
         /\ GateStep(s) => store' = store
      ]_vars

\* C6 as stated: every answer of the gate to a request carrying a token issued
\* to a user who is no longer stored is 401 'User not found'.
C6_DeletedUserAlways401 ==
    [][\A s \in Slots :
         (/\ GateStep(s)
          /\ req'[s].pc = "done"
          /\ Carried(s) \in issued
          /\ FindById(users, Carried(s).id) = NoRec)
         => req'[s].res = ErrorJson(401, "User not found")]_vars

\* C6 amended: a request to a protected route carrying a token issued to a user
\* who has been deleted is rejected without a write: with 401 'User not found'
\* while the token is inside its hour, with 403 'Invalid or expired token' once
\* it has expired; and the identity the gate attaches is the stored user whose
\* id the token carries, never another user's.
C6_DeletedUserRejected ==
    [][\A s \in Slots :
         /\ (/\ Arrives(s) /\ Protected(s)
             /\ Carried(s) \in issued
             /\ FindById(users, Carried(s).id) = NoRec)
            => IF now < Carried(s).exp
               THEN req'[s].pc = "auth" /\ store' = store
               ELSE /\ req'[s].res = ErrorJson(403, "Invalid or expired token")
                    /\ store' = store
         /\ (/\ req[s].pc = "auth" /\ req'[s] # req[s]
             /\ FindById(users, Carried(s).id) = NoRec)
            => (/\ req'[s].res = ErrorJson(401, "User not found")
                /\ store' = store)
         /\ (req[s].pc = "auth" /\ req'[s].user # NoRec)
            => (/\ req'[s].user.id = Carried(s).id
                /\ req'[s].user \in users)
      ]_vars

\* the token of a deleted user, still inside its hour, was refused
C6_Witness ==
    \E s \in Slots :
      /\ req[s].pc = "done" /\ req[s].route \in ProtectedRoutes
      /\ HeaderToken(req[s].headers) \in issued
      /\ now < HeaderToken(req[s].headers).exp
      /\ FindById(users, HeaderToken(req[s].headers).id) = NoRec
      /\ req[s].res = ErrorJson(401, "User not found")

\* C7: the gate lets a token through only inside the hour after its issue; an
\* expired token and a malformed, tampered or forged one get the same answer,
\* 403 'Invalid or expired token'.
C7_TokenWindow ==
    [][\A s \in Slots :
         (Arrives(s) /\ Protected(s) /\ ~Falsy(Carried(s)))
         => IF Genuine(Carried(s), now)
            THEN req'[s].pc = "auth"
            ELSE req'[s].res = ErrorJson(403, "Invalid or expired token")]_vars

\* a token the server issued was refused after its hour
C7_Witness ==
    \E s \in Slots :
      /\ req[s].pc = "done" /\ req[s].route \in ProtectedRoutes
      /\ HeaderToken(req[s].headers) \in issued
      /\ now >= HeaderToken(req[s].headers).iat + ExpiresIn
      /\ req[s].res = ErrorJson(403, "Invalid or expired token")

(***************************************************************************)
(* Registration.                                                           *)
(***************************************************************************)
Registering(s) == req[s].route = "register" /\ req'[s] # req[s]
EmailStored(email) == \E u \in users : u.email = email

\* C8: a valid POST /users/register whose email a stored user already has is
\* answered 400 'Email already in use', whatever its username, and creates no
\* user; no two stored users share an email.
C8_DuplicateEmail ==
    /\ [](\A u1, u2 \in users : u1.email = u2.email => u1 = u2)
    /\ [][\A s \in Slots :
            (/\ Registering(s)
             /\ req[s].pc = "find"
             /\ EmailStored(req[s].body.email))
            => (/\ req'[s].pc = "done"
                /\ req'[s].res = ErrorJson(400, "Email already in use")
                /\ users' = users)]_vars

\* a stored email was refused to a registration under another username
C8_Witness ==
    \E s \in Slots :
      /\ req[s].route = "register" /\ req[s].pc = "done"
      /\ req[s].res = ErrorJson(400, "Email already in use")
      /\ \E u \in users :
           u.email = req[s].body.email /\ u.username # req[s].body.username

\* C9: a registration that the store refuses because its username or its email
\* is taken is answered with a duplicate error, 400 '... already in use', and
\* not with the generic 500 'Internal server error'.
C9_DuplicateIs400 ==
    [][\A s \in Slots :
         (/\ Registering(s)
          /\ req[s].pc \in {"find", "write"} /\ req'[s].pc = "done"
          /\ \E u \in users :
               u.username = req[s].body.username \/ u.email = req[s].body.email)
         => (/\ req'[s].res.status = 400
             /\ req'[s].res.body.error \in {"Email already in use",
                                            "Username already in use"})]_vars

\* C10: a successful registration stores the bcrypt hash of the submitted
\* password, never the password itself, and no response of the register
\* endpoint has a password field.
C10_PasswordHashed ==
    /\ [](\A s \in Slots :
            (req[s].route = "register" /\ req[s].pc = "done")
            => ~Has(req[s].res.body, "password"))
    /\ [][\A s \in Slots :
            (Registering(s) /\ users' # users)
            => (/\ req'[s].res.status = 201
                /\ \A u \in users' \ users :
                     /\ u.password # req[s].body.password
                     /\ \E salt \in Salts :
                          u.password = BcryptHash(req[s].body.password, salt))]_vars

\* a registration succeeded and its user is stored
C10_Witness ==
    \E s \in Slots :
      /\ req[s].route = "register" /\ req[s].pc = "done"
      /\ req[s].res.status = 201
      /\ \E u \in users : u.id = req[s].res.body.id /\ u.email = req[s].body.email

(***************************************************************************)
(* Login.                                                                  *)
(***************************************************************************)
LoginAnswers(s) ==
    req[s].route = "login" /\ req[s].pc = "find" /\ req'[s].pc = "done"

\* the stored user with this email whose stored hash is a hash of the password
Matches(u, body) ==
    /\ u.email = body.email
    /\ \E salt \in Salts : u.password = BcryptHash(body.password, salt)

\* C11: POST /users/login answers 200 with a token only when the email is that
\* of a stored user and the password matches that user's stored hash, and the
\* token is signed for that user; a schema-valid login with an unknown email and
\* one with a known email and a wrong password get the same answer, 400
\* 'Invalid credentials'.
C11_LoginOnlyWithMatch ==
    [][\A s \in Slots :
         LoginAnswers(s)
         => IF \E u \in users : Matches(u, req[s].body)
            THEN \E u \in users :
                   /\ Matches(u, req[s].body)
                   /\ req'[s].res = Json(200, [token |-> JwtSign(u.id, JWT_SECRET, now)])
            ELSE req'[s].res = ErrorJson(400, "Invalid credentials")]_vars

\* an unknown email and a known email with a wrong password, answered alike
C11_Witness ==
    \E s, t \in Slots :
      /\ req[s].route = "login" /\ req[s].pc = "done"
      /\ req[t].route = "login" /\ req[t].pc = "done"
      /\ LoginValid(req[s].body) /\ LoginValid(req[t].body)
      /\ ~EmailStored(req[s].body.email)
      /\ EmailStored(req[t].body.email)
      /\ ~\E u \in users : Matches(u, req[t].body)
      /\ req[s].res = ErrorJson(400, "Invalid credentials")
      /\ req[t].res = req[s].res

(***************************************************************************)
(* Items.                                                                  *)
(***************************************************************************)
\* the sum of the ratings of the reviews of an item, review by review
RECURSIVE RatingSum(_, _)
RatingSum(itemId, ids) ==
    IF ids = {} THEN 0
    ELSE LET id == CHOOSE x \in ids : TRUE
             r == FindById(reviews, id)
         IN (IF r.itemId = itemId THEN r.rating ELSE 0) + RatingSum(itemId, ids \ {id})

RatingCount(itemId) == Cardinality({r \in reviews : r.itemId = itemId})

\* h hundredths is the mean sum / n rounded to two decimals
IsRoundedMean(h, sum, n) ==
    /\ 2 * (100 * sum - h * n) <= n
    /\ 2 * (h * n - 100 * sum) <= n

\* the averageRating the claim asks of an item of the store
AverageOk(it) ==
    LET n == RatingCount(it.id)
        sum == RatingSum(it.id, {r.id : r \in reviews})
    IN /\ it.averageRating.null <=> n = 0
       /\ n > 0 => IsRoundedMean(it.averageRating.hundredths, sum, n)

\* C12: every item that GET /items and GET /items/:id answer with carries an
\* averageRating that is null exactly when the item has no review and is
\* otherwise the mean of the ratings of its reviews in the store, rounded to two
\* decimals (ratings 5 and 4 give 4.5); GET /items returns no list of ratings;
\* GET /items/:id of a stored item answers with that item.
C12_AverageRating ==
    [][\A s \in Slots :
         /\ (req[s].route = "getItems" /\ req[s].pc = "find" /\ req'[s].pc = "done")
            => \A k \in DOMAIN req'[s].res.body.items :
                 LET it == req'[s].res.body.items[k]
                 IN /\ ~Has(it, "reviews")
                    /\ FindById(items, it.id) # NoRec
                    /\ AverageOk(it)
         /\ (/\ Arrives(s) /\ req'[s].route = "getItem"
             /\ FindById(items, ParseInt(req'[s].params).val) # NoRec)
            => (/\ req'[s].pc = "done" => req'[s].res.status = 200
                /\ req'[s].pc = "done" => AverageOk(req'[s].res.body))
      ]_vars

\* C12 for the list alone: every item of a GET /items answer carries the
\* averageRating of the claim and no list of ratings
C12_ListAverage ==
    [][\A s \in Slots :
         (req[s].route = "getItems" /\ req[s].pc = "find" /\ req'[s].pc = "done")
         => \A k \in DOMAIN req'[s].res.body.items :
              LET it == req'[s].res.body.items[k]
              IN /\ ~Has(it, "reviews")
                 /\ FindById(items, it.id) # NoRec
                 /\ AverageOk(it)]_vars

\* a list with an item of no review and an item whose mean needed rounding
C12_ListWitness ==
    \E s \in Slots :
      /\ req[s].route = "getItems" /\ req[s].pc = "done" /\ req[s].res.status = 200
      /\ \E k \in DOMAIN req[s].res.body.items :
           req[s].res.body.items[k].averageRating = Null
      /\ \E k \in DOMAIN req[s].res.body.items :
           req[s].res.body.items[k].averageRating = ParseFloat(333)

\* C13: GET /items/:id answers 200 with the item, its reviews and their
\* comments and its averageRating when an item has that id, 404 'Item not found'
\* when the id is numeric and no item has it, 400 'Invalid item ID' when the id
\* is not numeric.
C13_GetItemOutcomes ==
    [][\A s \in Slots :
         (Arrives(s) /\ req'[s].route = "getItem")
         => LET id == ParseInt(req'[s].params)
                item == FindById(items, id.val)
            IN IF id.nan
               THEN req'[s].res = ErrorJson(400, "Invalid item ID")
               ELSE IF item = NoRec
               THEN req'[s].pc = "done" => req'[s].res = ErrorJson(404, "Item not found")
               ELSE req'[s].pc = "done"
                    => (/\ req'[s].res.status = 200
                        /\ req'[s].res.body.id = item.id
                        /\ Has(req'[s].res.body, "reviews")
                        /\ AverageOk(req'[s].res.body))]_vars

\* the number a query parameter spells, or the default when it is absent
Spelled(q, key, default) ==
    IF Has(q, key) THEN ParseInt(q[key].text).val ELSE default

\* page = p, limit = l with p >= 1 and 1 <= l <= 100, each optional
PageInRange(q) ==
    /\ Has(q, "page") => ~ParseInt(q.page.text).nan
    /\ Has(q, "limit") => ~ParseInt(q.limit.text).nan
    /\ Spelled(q, "page", PageDefault) >= PageMin
    /\ Spelled(q, "limit", LimitDefault) >= LimitMin
    /\ Spelled(q, "limit", LimitDefault) <= LimitMax

\* how many of n rows lie at positions (p-1)*l+1 .. p*l
RowsOnPage(n, p, l) ==
    IF n <= (p - 1) * l THEN 0
    ELSE IF n - (p - 1) * l > l THEN l ELSE n - (p - 1) * l

\* C14: GET /items with page = p and limit = l (p >= 1, 1 <= l <= 100) is
\* answered 200 with page p of l items of the matching items (page=2, limit=10
\* gives items 11-20); without page and limit it uses page 1 and limit 10.
C14_Pagination ==
    [][\A s \in Slots :
         /\ (Arrives(s) /\ req'[s].route = "getItems" /\ PageInRange(req'[s].query))
            => req'[s].pc = "find"
         /\ (req[s].route = "getItems" /\ req[s].pc = "find" /\ req'[s].pc = "done")
            => LET q == req[s].query
                   p == Spelled(q, "page", PageDefault)
                   l == Spelled(q, "limit", LimitDefault)
                   n == Cardinality({i \in items : ItemWhere(i, q)})
               IN /\ req'[s].res.status = 200
                  /\ req'[s].res.body.page = p
                  /\ req'[s].res.body.limit = l
                  /\ Len(req'[s].res.body.items) = RowsOnPage(n, p, l)]_vars

(***************************************************************************)
(* Comments and the references between the tables.                         *)
(***************************************************************************)
CommentStep(s) == req[s].route = "postComment" /\ req'[s] # req[s]

\* C15: a POST /comments whose reviewId names no stored Review when the handler
\* looks it up is answered 404 'Review not found.' and stores no comment; a
\* create for a stored review stores exactly one comment, whose author is the
\* authenticated user and whose review is reviewId, and is answered 201.
C15_CommentNeedsReview ==
    [][\A s \in Slots :
         /\ (CommentStep(s) /\ req[s].pc = "find")
            => IF FindById(reviews, req[s].body.reviewId) = NoRec
               THEN /\ req'[s].pc = "done"
                    /\ req'[s].res = ErrorJson(404, "Review not found.")
                    /\ store' = store
               ELSE req'[s].pc = "write" /\ store' = store
         /\ (CommentStep(s) /\ req[s].pc = "write")
            => IF FindById(reviews, req[s].body.reviewId) = NoRec
               THEN req'[s].res.status # 201 /\ store' = store
               ELSE IF FindById(users, req[s].user.id) = NoRec
               THEN req'[s].res.status # 201 /\ store' = store
               ELSE /\ req'[s].res.status = 201
                    /\ comments \subseteq comments'
                    /\ Cardinality(comments' \ comments) = 1
                    /\ \A c \in comments' \ comments :
                         /\ c.userId = req[s].user.id
                         /\ c.reviewId = req[s].body.reviewId
                         /\ c.content = req[s].body.content
                         /\ c.id = req'[s].res.body.id
                    /\ <<users', items', reviews'>> = <<users, items, reviews>>
      ]_vars

\* a comment on a missing review was refused, after one on a stored review was kept
C15_Witness ==
    \E s \in Slots :
      /\ req[s].route = "postComment" /\ req[s].pc = "done"
      /\ req[s].res = ErrorJson(404, "Review not found.")
      /\ FindById(reviews, req[s].body.reviewId) = NoRec
      /\ \E c \in comments : c \notin SeedComments /\ c.userId = req[s].user.id

\* C16: every Comment references a stored Review and a stored User and every
\* Review a stored User and a stored Item, whatever was deleted and also when a
\* comment or a review is created while its parent is deleted.
C16_ReferencesExist ==
    /\ \A c \in comments :
         /\ FindById(reviews, c.reviewId) # NoRec
         /\ FindById(users, c.userId) # NoRec
    /\ \A r \in reviews :
         /\ FindById(users, r.userId) # NoRec
         /\ FindById(items, r.itemId) # NoRec

\* a comment whose review was deleted after the handler had found it was refused
C16_Witness ==
    \E s \in Slots :
      /\ req[s].route = "postComment" /\ req[s].pc = "done"
      /\ req[s].res = ErrorJson(500, "Internal server error")
      /\ FindById(reviews, req[s].body.reviewId) = NoRec
      /\ FindById(users, req[s].user.id) # NoRec
      /\ Cardinality(items) < Cardinality(SeedItems)

(***************************************************************************)
(* Reads of single records and of the caller's own records.                *)
(***************************************************************************)
\* C17: GET /reviews/:id of a stored review answers 200 with the review, its
\* user and its item; of an id that names no review, as after the author's
\* DELETE was answered 200, it answers 404 'Review not found'.
C17_DeletedReviewIs404 ==
    [][\A s \in Slots :
         (/\ Arrives(s) /\ req'[s].route = "getReview" /\ NumericId(req'[s])
          /\ ParseInt(req'[s].params).val < nextReviewId)
         => LET review == FindById(reviews, ParseInt(req'[s].params).val)
            IN IF review = NoRec
               THEN req'[s].res = ErrorJson(404, "Review not found")
               ELSE /\ req'[s].res.status = 200
                    /\ req'[s].res.body.id = review.id
                    /\ Has(req'[s].res.body, "user")
                    /\ Has(req'[s].res.body, "item")]_vars

\* C18: GET /comments/:id of an id that names no comment, as after the author's
\* DELETE was answered 200, answers 404 with the JSON body
\* { error: 'Comment not found.' }.
C18_DeletedCommentIs404 ==
    [][\A s \in Slots :
         (/\ Arrives(s) /\ req'[s].route = "getComment" /\ NumericId(req'[s])
          /\ ParseInt(req'[s].params).val < nextCommentId
          /\ FindById(comments, ParseInt(req'[s].params).val) = NoRec)
         => req'[s].res = ErrorJson(404, "Comment not found.")]_vars

\* the list holds each record of the set once, a later createdAt first
ListsDesc(list, S) ==
    /\ Len(list) = Cardinality(S)
    /\ \A x \in S : \E k \in 1..Len(list) : list[k].id = x.id
    /\ \A i, j \in 1..Len(list) : i < j => list[i].createdAt >= list[j].createdAt

\* the handler of a /user/me route answers in this step
MineAnswers(s, route) ==
    /\ req[s].route = route /\ req'[s].pc = "done" /\ req'[s].user # NoRec
    /\ \/ req[s].pc = "find"
       \/ req[s].pc = "auth" /\ req'[s].res.status # 401

\* C19: GET /reviews/user/me and GET /comments/user/me with a valid token of
\* user U answer 200 with exactly the stored reviews (comments) whose author is
\* U, the most recently created first.
C19_OwnRecords ==
    [][\A s \in Slots :
         /\ MineAnswers(s, "myReviews")
            => (/\ req'[s].res.status = 200
                /\ ListsDesc(req'[s].res.body.reviews, ReviewsOfUser(req'[s].user.id)))
         /\ MineAnswers(s, "myComments")
            => (/\ req'[s].res.status = 200
                /\ ListsDesc(req'[s].res.body.comments,
                             {c \in comments : c.userId = req'[s].user.id}))
      ]_vars

\* C19 for the comments alone
C19_OwnComments ==
    [][\A s \in Slots :
         MineAnswers(s, "myComments")
         => (/\ req'[s].res.status = 200
             /\ ListsDesc(req'[s].res.body.comments,
                          {c \in comments : c.userId = req'[s].user.id})
             /\ \A k \in DOMAIN req'[s].res.body.comments :
                  req'[s].res.body.comments[k].userId = req'[s].user.id)]_vars

\* the caller's comments of two different times, the later one first
C19_CommentsWitness ==
    \E s \in Slots :
      /\ req[s].route = "myComments" /\ req[s].pc = "done" /\ req[s].res.status = 200
      /\ Len(req[s].res.body.comments) >= 2
      /\ req[s].res.body.comments[1].createdAt > req[s].res.body.comments[2].createdAt
      /\ \E c \in comments : c.userId # req[s].user.id

(***************************************************************************)
(* Errors and writes.                                                      *)
(***************************************************************************)
ErrorStatuses == {400, 401, 403, 404, 500}

\* C20: a request that is answered 400, 401, 403, 404 or 500 has changed none
\* of the tables: no step of a request before its answer writes, and the step
\* that answers with an error status, a failed write included, writes nothing.
C20_ErrorsWriteNothing ==
    [][\A s \in Slots :
         req'[s] # req[s]
         => /\ req'[s].pc # "done" => store' = store
            /\ (req'[s].pc = "done" /\ req'[s].res.status \in ErrorStatuses)
               => store' = store]_vars

\* an update was refused by the store after the guard had passed it, and a
\* request was refused at each earlier check
C20_Witness ==
    \E s \in Slots :
      /\ req[s].route = "putReview" /\ req[s].pc = "done"
      /\ req[s].existing # NoRec
      /\ req[s].res = ErrorJson(500, "Internal server error")
      /\ FindById(reviews, ParseInt(req[s].params).val) = NoRec


(***************************************************************************)
(* Failure responses.                                                      *)
(***************************************************************************)
\* the conditions the gate answers 401 or 403 for, on the request as it arrives
GateRefuses(r, t) ==
    LET token == HeaderToken(r.headers)
    IN \/ Falsy(token)
       \/ ~JwtVerifies(token, JWT_SECRET, t)

\* the user of the token is not stored
UserMissing(r) == FindById(users, HeaderToken(r.headers).id) = NoRec

\* the guard's condition: the record named exists and is someone else's
NotOwner(r) ==
    /\ r.route \in OwnerRoutes
    /\ r.pc = "find"
    /\ Target(r) # NoRec
    /\ Target(r).userId # r.user.id

\* C21: every failure response is a JSON body with an error field, and 401 and 403
\* are answers to the conditions of the gate (no token, a token that does not
\* verify, no such user) and of the guard (someone else's record) only: a storage
\* failure, also one met while the gate resolves the user, is answered 500
\* 'Internal server error'.
C21_FailuresAre500 ==
    [][\A s \in Slots :
         (req'[s] # req[s] /\ req'[s].pc = "done" /\ req'[s].res.status >= 400)
         => /\ DOMAIN req'[s].res.body = {"error"}
            /\ req'[s].res.status \in {401, 403}
               => \/ req[s].pc = "idle" /\ GateRefuses(req'[s], now)
                  \/ req[s].pc = "auth" /\ UserMissing(req[s])
                  \/ NotOwner(req[s])
            /\ req'[s].res.status = 500
               => req'[s].res.body.error = "Internal server error"]_vars


(***************************************************************************)
(* Ratings.                                                                *)
(***************************************************************************)
\* the number is an integer from RatingMin to RatingMax
RatingInRange(v) == v.tenths = 0 /\ v.whole \in RatingMin..RatingMax

\* request s, past the gate, carries a rating that is not such an integer; a PUT
\* names an existing review of its sender
BadRating(s) ==
    /\ req[s].route \in {"postReview", "putReview"}
    /\ req'[s].user # NoRec
    /\ Has(req'[s].body, "rating") /\ ~RatingInRange(req'[s].body.rating)
    /\ req[s].route = "putReview"
       => /\ NumericId(req[s])
          /\ Target(req[s]) # NoRec /\ Target(req[s]).userId = req'[s].user.id

\* C22: every stored review has an integer rating from 1 to 5, and a POST /reviews
\* or PUT /reviews/:id whose rating is not an integer from 1 to 5 is answered 400
\* with the validation issues and writes nothing.
C22_RatingValidated ==
    [][/\ \A r \in reviews' : r.rating \in RatingMin..RatingMax
       /\ \A s \in Slots :
            (req'[s] # req[s] /\ req'[s].pc = "done" /\ BadRating(s))
            => /\ req'[s].res = ErrorJson(400, ZodIssues)
               /\ store' = store]_vars

\* the first half of C22 alone: the ratings in the store
C22_StoredRatings == \A r \in reviews : r.rating \in RatingMin..RatingMax


(***************************************************************************)
(* Partial updates.                                                        *)
(***************************************************************************)
\* request s is a PUT /reviews/:id whose update succeeds in this step
UpdateSucceeds(s) ==
    /\ req[s].route = "putReview"
    /\ req[s].pc = "write" /\ req'[s].pc = "done"
    /\ req'[s].res.status = 200

\* C23: a successful PUT /reviews/:id by the author sets the fields present in the
\* body to the supplied values, leaves a field the body omits as it was stored, and
\* leaves id, userId and itemId (and every other review) as they were.
C23_PartialUpdate ==
    [][\A s \in Slots :
         UpdateSucceeds(s)
         => LET id == ParseInt(req[s].params).val
                body == req[s].body
                before == FindById(reviews, id)
                after == FindById(reviews', id)
            IN /\ before # NoRec /\ after # NoRec
               /\ before.userId = req[s].user.id
               /\ Has(body, "rating")
                  => body.rating.tenths = 0 /\ after.rating = body.rating.whole
               /\ Has(body, "content") => after.content = body.content
               /\ ~Has(body, "rating") => after.rating = before.rating
               /\ ~Has(body, "content") => after.content = before.content
               /\ after.id = before.id
               /\ after.userId = before.userId
               /\ after.itemId = before.itemId
               /\ reviews' \ {after} = reviews \ {before}]_vars

\* the part of C23 about the keys: no update changes id, userId or itemId
C23_KeysKept ==
    [][\A s \in Slots :
         UpdateSucceeds(s)
         => LET id == ParseInt(req[s].params).val
                before == FindById(reviews, id)
                after == FindById(reviews', id)
            IN /\ after.id = before.id
               /\ after.userId = before.userId
               /\ after.itemId = before.itemId
               /\ reviews' \ {after} = reviews \ {before}]_vars


\* requests s and t are two answered updates of one review by its author, s with
\* a rating only and t with a content only
BothUpdated(s, t) ==
    /\ s # t
    /\ req[s].route = "putReview" /\ req[t].route = "putReview"
    /\ req[s].pc = "done" /\ req[t].pc = "done"
    /\ req[s].res.status = 200 /\ req[t].res.status = 200
    /\ req[s].params = req[t].params
    /\ req[s].user.id = req[t].user.id
    /\ DOMAIN req[s].body = {"rating"}
    /\ DOMAIN req[t].body = {"content"}

\* C24: after two updates of one review by its author, one of the rating only and
\* one of the content only, have both succeeded, the stored review carries the new
\* rating and the new content, however their lookups and writes interleaved.
C24_NoLostUpdate ==
    \A s, t \in Slots :
      BothUpdated(s, t)
      => LET stored == FindById(reviews, ParseInt(req[s].params).val)
         IN stored # NoRec
            => /\ stored.rating = req[s].body.rating.whole
               /\ stored.content = req[t].body.content

====
